---- MODULE Spec2Model ----
(***************************************************************************)
(* Model of onerange (src/src/lib.rs): the range! macro that rewrites the  *)
(* caller's shapes into a OneRange {start, end, step}, the containment     *)
(* test of RangeBounds::contains, and the two iteration modes iter(&self)  *)
(* and into_iter(self), over the fixed-width element types u8 and i8.      *)
(***************************************************************************)
EXTENDS Integers, Sequences, FiniteSets

\* ---- bounds of the model ------------------------------------------------
\* inputs are drawn within Near of the element type's minimum and maximum
Near == 1
\* explicit strides are drawn from 1..MaxStep
MaxStep == 3

\* ---- element types (into_iter!(u8, ..., i8, ...)) ------------------------
Types == {"u8", "i8"}

MIN(t) == IF t = "u8" THEN 0 ELSE -128

MAX(t) == IF t = "u8" THEN 255 ELSE 127

\* MinMax::max(_) and MinMax::min(_): the argument only selects the type
MinMax_max(t, x) == MAX(t)

MinMax_min_arg(t, x) == x

MinMax_min(t, x) == MIN(t)

Values(t) == (MIN(t)..(MIN(t) + Near)) \cup ((MAX(t) - Near)..MAX(t))

\* ---- macro input: a comma separated list of items ------------------------
\* An item is one argument of the invocation: an optional leading `=`, an
\* optional leading `..` or `..=`, an expression of value val, an optional
\* MinMax::min( ) around it, sub trailing `-1`s, lit = the expression is
\* still a raw literal token (not yet captured as an expr fragment), and
\* known = the compiler knows its value (a literal, or a local bound to one).
Item(eq, dots, val, sub, min, lit, known) ==
    [eq |-> eq, dots |-> dots, val |-> val, sub |-> sub, min |-> min, lit |-> lit,
     known |-> known]

\* a raw literal `v` written in source text
Lit(v) == Item(FALSE, "none", v, 0, FALSE, TRUE, TRUE)

\* a local bound to the literal v (`let e = 0u8;`): not a literal token,
\* but a value the compiler knows
Const(v) == Item(FALSE, "none", v, 0, FALSE, FALSE, TRUE)

\* an expression whose value v arrives at run time
Var(v) == Item(FALSE, "none", v, 0, FALSE, FALSE, FALSE)

\* the caller-facing shapes of range!
Shapes == {"closed", "half", "half_step", "closed_step",
           "open", "open_step", "open_eq_step", "open_eq"}

OpenShapes == {"open", "open_step", "open_eq_step", "open_eq"}

\* the step expressions a caller writes: a literal 1..MaxStep, or an
\* expression of value 1 that is not the literal token `1` (the only
\* distinction the matchers make on a step)
StepTokens == {Lit(k) : k \in 1..MaxStep} \cup {Var(1)}

\* the end expressions a caller writes: a run-time value or a known one
EndTokens(t) == {Var(b) : b \in Values(t)} \cup {Const(b) : b \in Values(t)}

\* the token list the caller writes for a shape, from the value a of its
\* start expression and its end and step expressions b and k (nothing is
\* computed from the start, so only its value matters)
Tokens(shape, a, b, k) ==
    CASE shape = "closed"       -> <<Var(a), [b EXCEPT !.eq = TRUE]>>
      [] shape = "half"         -> <<Var(a), b>>
      [] shape = "half_step"    -> <<Var(a), b, k>>
      [] shape = "closed_step"  -> <<Var(a), [b EXCEPT !.eq = TRUE], k>>
      [] shape = "open"         -> <<[b EXCEPT !.dots = "to"]>>
      [] shape = "open_step"    -> <<[b EXCEPT !.dots = "to"], k>>
      [] shape = "open_eq_step" -> <<[b EXCEPT !.dots = "toeq"], k>>
      [] shape = "open_eq"      -> <<[b EXCEPT !.dots = "toeq"]>>

\* ---- macro_rules! matching ------------------------------------------------
\* `$x: expr` parses any expression, `..e` and `..=e` included
IsExpr(it) == ~it.eq

\* `=$x: expr`
IsEqExpr(it) == it.eq

\* the literal token `1` of arm 1: a captured fragment is opaque to it
IsLit1(it) ==
    ~it.eq /\ it.lit /\ it.val = 1 /\ it.dots = "none" /\ it.sub = 0 /\ ~it.min

\* `..$x: expr` and `..=$x: expr`
IsTo(it) == ~it.eq /\ it.dots = "to"

IsToEq(it) == ~it.eq /\ it.dots = "toeq"

\* a fragment once captured: no longer a literal token, its prefix consumed
Cap(it) == [it EXCEPT !.lit = FALSE]

CapEq(it) == [it EXCEPT !.lit = FALSE, !.eq = FALSE]

CapDots(it) == [it EXCEPT !.lit = FALSE, !.dots = "none"]

\* the first arm of range! whose matcher accepts the tokens, 0 when none does
ArmOf(inv) ==
    LET n == Len(inv) IN
    IF n = 3 /\ IsExpr(inv[1]) /\ IsEqExpr(inv[2]) /\ IsLit1(inv[3]) THEN 1
    ELSE IF n = 3 /\ IsExpr(inv[1]) /\ IsEqExpr(inv[2]) /\ IsExpr(inv[3]) THEN 2
    ELSE IF n = 2 /\ IsExpr(inv[1]) /\ IsEqExpr(inv[2]) THEN 3
    ELSE IF n = 2 /\ IsExpr(inv[1]) /\ IsExpr(inv[2]) THEN 4
    ELSE IF n = 3 /\ IsExpr(inv[1]) /\ IsExpr(inv[2]) /\ IsExpr(inv[3]) THEN 5
    ELSE IF n = 1 /\ IsTo(inv[1]) THEN 6
    ELSE IF n = 2 /\ IsTo(inv[1]) /\ IsExpr(inv[2]) THEN 7
    ELSE IF n = 2 /\ IsToEq(inv[1]) /\ IsExpr(inv[2]) THEN 8
    ELSE IF n = 1 /\ IsToEq(inv[1]) THEN 9
    ELSE 0

\* the invocation an arm 3..9 transcribes to
Transcribe(arm, inv) ==
    CASE arm = 3 -> <<Cap(inv[1]), CapEq(inv[2]), Lit(1)>>
      [] arm = 4 -> <<Cap(inv[1]), Cap(inv[2]), Lit(1)>>
      [] arm = 5 -> <<Cap(inv[1]),
                      [Cap(inv[2]) EXCEPT !.eq = TRUE, !.sub = @ + 1],
                      Cap(inv[3])>>
      [] arm = 6 -> <<[CapDots(inv[1]) EXCEPT !.min = TRUE], CapDots(inv[1]), Lit(1)>>
      [] arm = 7 -> <<[CapDots(inv[1]) EXCEPT !.min = TRUE], CapDots(inv[1]), Cap(inv[2])>>
      [] arm = 8 -> <<[CapDots(inv[1]) EXCEPT !.min = TRUE], CapDots(inv[1]), Cap(inv[2])>>
      [] arm = 9 -> <<[CapDots(inv[1]) EXCEPT !.min = TRUE],
                      [CapDots(inv[1]) EXCEPT !.eq = TRUE], Lit(1)>>

\* ---- evaluation of the fields of the OneRange literal --------------------
\* the value of an item before its trailing `-1`s
Base(t, it) == IF it.min THEN MinMax_min(t, it.val) ELSE it.val

\* `$end-1` is computed in the element type: below MIN it overflows
Overflows(t, it) == Base(t, it) - it.sub < MIN(t)

\* the wrapped value an unchecked build computes
Wrapped(t, it) ==
    IF Overflows(t, it) THEN Base(t, it) - it.sub + 256 ELSE Base(t, it) - it.sub

\* a OneRange value, or the reason none was built
NoRange == [status |-> "none", start |-> 0, end |-> 0, unit |-> TRUE, step |-> 0]

Failed(why) == [NoRange EXCEPT !.status = why]

\* the compiler knows that the `-1` overflows: the deny-by-default lint
\* arithmetic_overflow rejects the build, in every profile
LintRejects(t, it) == it.known /\ Overflows(t, it)

\* OneRange { start, end, step }: start and end share the type T, so a start
\* that is a `..e` expression does not type-check; an overflowing `-1` on a
\* known operand does not compile; on a run-time operand it panics when
\* overflow checks are on and wraps otherwise
OneRange(t, oc, start, end, unit, step) ==
    IF start.dots # "none" \/ end.dots # "none" THEN Failed("type_error")
    ELSE IF LintRejects(t, start) \/ LintRejects(t, end) THEN Failed("lint_error")
    ELSE IF oc /\ (Overflows(t, start) \/ Overflows(t, end)) THEN Failed("panic")
    ELSE [status |-> "ok", start |-> Wrapped(t, start), end |-> Wrapped(t, end),
          unit |-> unit, step |-> IF unit THEN 0 ELSE step.val]

\* range!: expand until arm 1 or arm 2 builds the struct
RECURSIVE range(_, _, _)
range(t, oc, inv) ==
    LET arm == ArmOf(inv) IN
    IF arm = 1 THEN OneRange(t, oc, inv[1], CapEq(inv[2]), TRUE, inv[3])
    ELSE IF arm = 2 THEN OneRange(t, oc, inv[1], CapEq(inv[2]), FALSE, inv[3])
    ELSE IF arm = 0 THEN Failed("no_rule")
    ELSE range(t, oc, Transcribe(arm, inv))

\* ---- containment -----------------------------------------------------------
\* partial_cmp on integers
partial_cmp(x, y) == IF x < y THEN "Less" ELSE IF x = y THEN "Equal" ELSE "Greater"

contains_open_end(r, item) ==
    /\ partial_cmp(r.start, item) \in {"Equal", "Less"}
    /\ partial_cmp(item, r.end) \in {"Less"}

contains_start_only(r, item) ==
    partial_cmp(r.start, item) \in {"Equal", "Less"}

contains(r, item) ==
    /\ partial_cmp(r.start, item) \in {"Equal", "Less"}
    /\ partial_cmp(item, r.end) \in {"Equal", "Less"}

\* ---- the std iterators the range is turned into -------------------------
\* start..end (Range), start..=end (RangeInclusive) and their step_by,
\* held in one record: incl = the end is inclusive, exhausted = the flag of
\* RangeInclusive, stepped = wrapped in StepBy, step = StepBy's stored
\* step - 1, first_take = StepBy has not yet yielded its first element
Iterator(incl, start, end, stepped, step) ==
    [incl |-> incl, start |-> start, end |-> end, exhausted |-> FALSE,
     stepped |-> stepped, step |-> IF stepped THEN step - 1 ELSE 0,
     first_take |-> stepped]

None(it) == [some |-> FALSE, val |-> 0, it |-> it]

Some(v, it) == [some |-> TRUE, val |-> v, it |-> it]

\* Range::next and RangeInclusive::next
RangeNext(it) ==
    IF ~it.incl
    THEN IF it.start < it.end
         THEN Some(it.start, [it EXCEPT !.start = @ + 1])
         ELSE None(it)
    ELSE IF it.exhausted \/ ~(it.start <= it.end)
         THEN None(it)
         ELSE IF it.start < it.end
              THEN Some(it.start, [it EXCEPT !.start = @ + 1])
              ELSE Some(it.start, [it EXCEPT !.exhausted = TRUE])

\* Range::nth and RangeInclusive::nth; Step::forward_checked(start, n) is
\* None when start + n is not representable in the element type
RangeNth(t, it, n) ==
    LET plus_n == it.start + n
        fits == plus_n <= MAX(t)
    IN IF ~it.incl
       THEN IF fits /\ plus_n < it.end
            THEN Some(plus_n, [it EXCEPT !.start = plus_n + 1])
            ELSE None([it EXCEPT !.start = it.end])
       ELSE IF it.exhausted \/ ~(it.start <= it.end)
            THEN None(it)
            ELSE IF fits /\ plus_n < it.end
                 THEN Some(plus_n, [it EXCEPT !.start = plus_n + 1])
                 ELSE IF fits /\ plus_n = it.end
                      THEN Some(plus_n, [it EXCEPT !.start = plus_n, !.exhausted = TRUE])
                      ELSE None([it EXCEPT !.start = it.end, !.exhausted = TRUE])

\* Iterator::next of the four iterator types; StepBy::next takes the first
\* element with next() and every later one with nth(step - 1)
IteratorNext(t, it) ==
    IF ~it.stepped THEN RangeNext(it)
    ELSE IF it.first_take
         THEN LET n == RangeNext(it) IN [n EXCEPT !.it.first_take = FALSE]
         ELSE RangeNth(t, it, it.step)

\* at most this many elements come out of a range over the element type
Span(t) == MAX(t) - MIN(t) + 1

\* up to fuel calls of next(), stopping at the first None: the elements
\* yielded, the iterator left, and done = a None was returned
RECURSIVE pull(_, _, _, _)
pull(t, it, done, fuel) ==
    IF done \/ fuel = 0 THEN [out |-> <<>>, it |-> it, done |-> done]
    ELSE IF fuel = 1
    THEN LET n == IteratorNext(t, it) IN
         [out |-> IF n.some THEN <<n.val>> ELSE <<>>, it |-> n.it, done |-> ~n.some]
    ELSE LET half == fuel \div 2
             fst == pull(t, it, done, half)
             snd == pull(t, fst.it, fst.done, fuel - half)
         IN [out |-> fst.out \o snd.out, it |-> snd.it, done |-> snd.done]

\* collect::<Vec<_>>(): call next() until it returns None
collect(t, it) == pull(t, it, FALSE, Span(t) + 1).out

\* ---- the two iteration modes of OneRange ---------------------------------
\* OneRange<$t, ()>::iter: self.start..self.end
iter_unit(r) == Iterator(FALSE, r.start, r.end, FALSE, 0)

\* OneRange<$t, usize>::iter: (self.start..self.end).step_by(self.step)
iter_step(r) == Iterator(FALSE, r.start, r.end, TRUE, r.step)

\* IntoIterator for OneRange<$t>: self.start..=self.end
into_iter_unit(r) == Iterator(TRUE, r.start, r.end, FALSE, 0)

into_iter_step_exclusive(r) == Iterator(FALSE, r.start, r.end, TRUE, r.step)

\* IntoIterator for OneRange<$t, usize>: (self.start..=self.end).step_by(self.step)
into_iter_step(r) == Iterator(TRUE, r.start, r.end, TRUE, r.step)

\* ---- state ------------------------------------------------------------------
VARIABLES
    ty,               \* the element type T of the ranges built
    overflow_checks,  \* the build panics on integer overflow (else it wraps)
    shape,            \* the caller-facing shape of the last range! call
    inv,              \* the tokens of the last range! call
    r,                \* the OneRange it built, or why none was built
    probed,           \* contains was called on r
    probe,            \* with this item
    hit,              \* and returned this
    ref_done,         \* r.iter() was collected
    ref_out,          \* into this sequence
    val_done,         \* r.into_iter() was collected
    val_out           \* into this sequence

vars == <<ty, overflow_checks, shape, inv, r, probed, probe, hit,
          ref_done, ref_out, val_done, val_out>>

Init ==
    /\ ty \in Types
    /\ overflow_checks \in BOOLEAN
    /\ shape = "none"
    /\ inv = <<>>
    /\ r = NoRange
    /\ probed = FALSE /\ probe = 0 /\ hit = FALSE
    /\ ref_done = FALSE /\ ref_out = <<>>
    /\ val_done = FALSE /\ val_out = <<>>

\* let r = range!(...): one of the caller-facing shapes, expanded and evaluated
Build(s, a, b, k) ==
    /\ r.status = "none"
    /\ shape' = s
    /\ inv' = Tokens(s, a, b, k)
    /\ r' = range(ty, overflow_checks, inv')
    /\ probed' = FALSE /\ probe' = 0 /\ hit' = FALSE
    /\ ref_done' = FALSE /\ ref_out' = <<>>
    /\ val_done' = FALSE /\ val_out' = <<>>
    /\ UNCHANGED <<ty, overflow_checks>>

\* r.contains(&item)
Contains(item) ==
    /\ r.status = "ok"
    /\ ~probed
    /\ probed' = TRUE
    /\ probe' = item
    /\ hit' = contains(r, item)
    /\ UNCHANGED <<ty, overflow_checks, shape, inv, r, ref_done, ref_out, val_done, val_out>>

\* r.iter().collect()
Iter ==
    /\ r.status = "ok"
    /\ ~ref_done
    /\ ref_done' = TRUE
    /\ ref_out' = collect(ty, IF r.unit THEN iter_unit(r) ELSE iter_step(r))
    /\ UNCHANGED <<ty, overflow_checks, shape, inv, r, probed, probe, hit, val_done, val_out>>

\* r.into_iter().collect(); OneRange is Copy, so r stays usable
IntoIter ==
    /\ r.status = "ok"
    /\ ~val_done
    /\ val_done' = TRUE
    /\ val_out' = collect(ty, IF r.unit THEN into_iter_unit(r) ELSE into_iter_step(r))
    /\ UNCHANGED <<ty, overflow_checks, shape, inv, r, probed, probe, hit, ref_done, ref_out>>

Next ==
    \/ \E s \in Shapes, a \in Values(ty), b \in EndTokens(ty), k \in StepTokens :
          Build(s, a, b, k)
    \/ \E item \in Values(ty) : Contains(item)
    \/ Iter
    \/ IntoIter

Spec == Init /\ [][Next]_vars

\* ---- what the caller wrote ------------------------------------------------
\* the start, end and step expressions of the last range! call
ArgStart == inv[1].val

ArgEndItem == IF shape \in OpenShapes THEN inv[1] ELSE inv[2]

ArgEnd == ArgEndItem.val

ArgStep == inv[Len(inv)]

Built == r.status = "ok"

\* the values start, start+1, ..., end
Ascending(start, end) == [i \in 1..(end - start + 1) |-> start + i - 1]

\* the values start, start+k, start+2k, ... that are <= end
Strided(start, end, k) == [i \in 1..((end - start) \div k + 1) |-> start + (i - 1) * k]

\* ---- claims -------------------------------------------------------------------

\* C1: contains(item) is true exactly when start <= item and item <= end, for a
\* range with or without a step; so contains(start) and contains(end) are
\* true whenever start <= end.
C1_ContainsIsInclusiveInterval ==
    probed =>
        /\ hit <=> (r.start <= probe /\ probe <= r.end)
        /\ (r.start <= r.end /\ probe \in {r.start, r.end}) => hit

C1_Witness == probed /\ hit /\ probe = r.end /\ r.start < r.end

\* C2: the closed shape `start, =end` builds (start, end, unit) with the end
\* unchanged, so the range contains end.
C2_ClosedShapeKeepsEnd ==
    (shape = "closed" /\ ArgStart <= ArgEnd /\ Built) =>
        /\ r.start = ArgStart /\ r.end = ArgEnd /\ r.unit
        /\ contains(r, ArgEnd)

\* C3: for a < b the half-open shape `a, b` and the closed shape `a, =(b-1)`
\* give the same contains result for every probe; the half-open range
\* contains b-1 and not b.
C3_HalfOpenEqualsClosed ==
    (shape = "half" /\ ArgStart < ArgEnd /\ Built) =>
        LET closed == range(ty, overflow_checks,
                            Tokens("closed", ArgStart, [ArgEndItem EXCEPT !.val = @ - 1], Lit(1)))
        IN /\ closed.status = "ok"
           /\ \A p \in Values(ty) : contains(r, p) = contains(closed, p)
           /\ contains(r, ArgEnd - 1)
           /\ ~contains(r, ArgEnd)

\* C4: iter(&self) and into_iter(self) enumerate the identical sequence.
C4_IterEqualsIntoIter == (ref_done /\ val_done) => ref_out = val_out

\* C5: for a unit-step range with start <= end, iter() yields every value
\* from start to end inclusive, ascending, each once.
C5_IterUnitReachesEnd ==
    (Built /\ r.unit /\ r.start <= r.end /\ ref_done) =>
        ref_out = Ascending(r.start, r.end)

\* C6: for a <= b and stride k >= 1, into_iter of (a, b, k) yields exactly
\* a, a+k, a+2k, ... up to the largest such value <= b, and ends without
\* overflow also when b is the maximum of the element type.
C6_IntoIterStrided ==
    (Built /\ ~r.unit /\ r.start <= r.end /\ val_done) =>
        /\ val_out = Strided(r.start, r.end, r.step)
        /\ \A i \in 1..Len(val_out) : val_out[i] <= MAX(ty)

C6_Witness ==
    /\ Built /\ ~r.unit /\ val_done
    /\ r.end = MAX(ty) /\ r.step > 1 /\ Len(val_out) > 1
    /\ val_out[Len(val_out)] + r.step > MAX(ty)

\* C7: the shape `..=end` builds (MIN(T), end, unit) whatever end is, and
\* into_iter yields every value from MIN(T) to end inclusive.
C7_OpenInclusive ==
    shape = "open_eq" =>
        /\ Built
        /\ r.start = MIN(ty) /\ r.end = ArgEnd /\ r.unit
        /\ val_done => val_out = Ascending(MIN(ty), ArgEnd)

C7_Witness ==
    shape = "open_eq" /\ val_done /\ ArgEnd > MIN(ty) /\ Len(val_out) > 1

\* C8: `..end, step` builds (MIN(T), end-1, step) and `..=end, step` builds
\* (MIN(T), end, step), so the range built from `..=end, step` contains end.
C8_OpenStrided ==
    /\ (shape = "open_step" /\ ArgEnd > MIN(ty)) =>
          /\ Built
          /\ r.start = MIN(ty) /\ r.end = ArgEnd - 1
          /\ ~r.unit /\ r.step = ArgStep.val
    /\ shape = "open_eq_step" =>
          /\ Built
          /\ r.start = MIN(ty) /\ r.end = ArgEnd
          /\ ~r.unit /\ r.step = ArgStep.val
          /\ contains(r, ArgEnd)

\* C9: a range with start > end contains no item, and iter() and into_iter()
\* yield no element, with or without a step.
C9_InvertedIsEmpty ==
    (Built /\ r.start > r.end) =>
        /\ probed => ~hit
        /\ ref_done => ref_out = <<>>
        /\ val_done => val_out = <<>>

C9_Witness ==
    Built /\ r.start > r.end /\ probed /\ probe >= r.start /\ ref_done /\ val_done

\* C10: an exclusive-end shape whose end is the element type's minimum fails
\* on the end-1 adjustment (the build is rejected or the call panics); it
\* never wraps into a range ending at MAX(T).
C10_ExclusiveEndAtMinFails ==
    (shape \in {"half", "half_step", "open"} /\ ArgEnd = MIN(ty)) =>
        /\ r.status \in {"lint_error", "panic"}
        /\ ~(Built /\ r.end = MAX(ty))

====
